---- MODULE Spec2Model ----
(***************************************************************************)
(* RpcFrontend (src/src/node/rpc/frontend.h): the request pipeline between *)
(* the RPC transport and the key-value store of a replicated service.      *)
(*                                                                         *)
(* The frontend's fields are the record fe, the endpoint registry it       *)
(* drives is reg, the request being processed is ctx (RpcContext and its   *)
(* session), tx is the request's KV transaction, loc holds the locals of   *)
(* process_command that live across the retry loop, and pc is the position *)
(* of the single request-processing thread.  obs records what happened to  *)
(* the request (endpoint executed, commit called, forwarded, ...) so that  *)
(* the properties can talk about it.  env is the deployment the frontend   *)
(* runs in: the static configuration and the values the collaborators      *)
(* (KV store, consensus, registry, forwarder, transport) may present.      *)
(***************************************************************************)
EXTENDS Integers, FiniteSets, Sequences, TLC

VARIABLES fe, reg, ctx, tx, loc, obs, pc, env, threads, open_lock,
          verifying, verifiers_lock, made, session

vars == <<fe, reg, ctx, tx, loc, obs, pc, env, threads, open_lock,
          verifying, verifiers_lock, made, session>>

(***************************************************************************)
(* Program constants and vocabulary                                        *)
(***************************************************************************)
max_attempts == 30

\* Calls counted per endpoint in one behaviour.
MaxCalls == 1

\* Ticks in one behaviour.
MaxTicks == 2

\* Requests of one session that find their endpoint, in one behaviour.
MaxSessionCalls == 3

INVALID_ID == "INVALID_ID"
NoNode == "NoNode"
NoIdentity == "nullptr"
NullConsensus == [present |-> FALSE, type |-> "none", is_primary |-> FALSE]
NullHistory == "nullptr"
NoCaller == "nullopt"
NoRecord == [status |-> "none", cert |-> "none"]
Unread == [status |-> "unread", cert |-> "none"]

\* The threads calling into the frontend, and what each is doing.
Threads == {"t1", "t2", "t3"}
NoThread == "NoThread"
IdleThread == [pc |-> "idle", identity |-> NoIdentity, result |-> "none"]
NoReqId == "none"
CFT == "CFT"
BFT == "BFT"
Never == "Never"
Sometimes == "Sometimes"
Always == "Always"

SessionCallers == {INVALID_ID, "user0"}
SignerId == "user1"
CallerIds == SessionCallers \cup {SignerId}
ForwardingRequired == {Never, Sometimes, Always}

\* A thread outside verify_client_signature, and the verifiers constructed
\* for a caller id: how many, and the certificate the first call for that
\* id presented.
NoVerifier == "none"
IdleVerifying ==
  [pc |-> "idle", caller_id |-> INVALID_ID, caller |-> "none",
   verifier |-> NoVerifier, result |-> "none"]
NothingMade == [count |-> 0, first |-> "none"]

\* How one pass through the try block of the retry loop can end: the place
\* control leaves it and, for an exception, its kind.  status is the response
\* status the endpoint set (at "return"/"commit") or the RpcException carries.
ExceptionKinds ==
  {"CompactedVersionConflict", "RpcException", "JsonParseError",
   "KvSerialiserException", "std::exception"}
CommitResults == {"OK", "CONFLICT", "NO_REPLICATE"}
AllStatuses == {200, 400, 500}
\* What the transaction answers after a commit that returned OK.
NoVersion == "NoVersion"
Versions ==
  [commit_version : {"0", NoVersion, "v42"},
   read_version : {NoVersion, "v7"},
   commit_term : {"t3"}]
Written == [commit_version |-> "v42", read_version |-> "v7", commit_term |-> "t3"]

AllOutcomes ==
  [at : {"should_apply_writes"}, kind : {"no_apply"}, status : AllStatuses]
  \cup [at : {"commit"}, kind : {"OK"}, status : AllStatuses,
        version : {Written}]
  \cup [at : {"commit"}, kind : CommitResults \ {"OK"}, status : AllStatuses]
  \cup [at : {"pre_exec", "record", "endpoint", "commit"},
        kind : ExceptionKinds \ {"RpcException"}, status : {200}]
  \cup [at : {"pre_exec", "record", "endpoint", "commit"},
        kind : {"RpcException"}, status : {400, 500}]

NoOutcome == [at |-> "none", kind |-> "none", status |-> 0]

(***************************************************************************)
(* Idle values of the per-request objects                                  *)
(***************************************************************************)
IdleCtx ==
  [entry |-> "none",
   lookup |-> "found",
   signed |-> "none",
   cert_id |-> INVALID_ID,
   original_caller |-> NoCaller,
   is_create_request |-> FALSE,
   execute_on_node |-> FALSE,
   is_forwarding |-> FALSE,
   caller_cert |-> "session_cert",
   status |-> 200,
   body |-> "",
   location |-> <<>>,
   www_authenticate |-> "",
   allow |-> "",
   content_type |-> "",
   seqno |-> "unset",
   view |-> "unset",
   result |-> "none"]

IdleTx == [writes |-> {}, req_id |-> NoReqId]

IdleLoc ==
  [caller_id |-> INVALID_ID,
   is_primary |-> FALSE,
   should_record_client_signature |-> FALSE,
   pre_exec |-> FALSE,
   attempts |-> 0]

IdleObs ==
  [lookups |-> 0,
   was_forwarding |-> FALSE,
   dispatch |-> "none",
   executed |-> FALSE,
   commit_called |-> FALSE,
   history_added |-> FALSE,
   forwarded |-> FALSE,
   redirected |-> FALSE,
   runs |-> 0,
   commits |-> 0,
   endpoint_found |-> FALSE,
   caller_id |-> INVALID_ID,
   primary |-> "unasked",
   gates |-> <<>>,
   failed |-> "none",
   verified |-> "not_called",
   forwarded_as |-> "none",
   args_caller |-> "none",
   service_record |-> Unread,
   reset_called |-> FALSE,
   outcome |-> NoOutcome]

State ==
  [fe |-> fe, reg |-> reg, ctx |-> ctx, tx |-> tx, loc |-> loc, obs |-> obs,
   pc |-> pc]

InstallRequest(s) ==
  /\ fe' = s.fe
  /\ reg' = s.reg
  /\ ctx' = s.ctx
  /\ tx' = s.tx
  /\ loc' = s.loc
  /\ obs' = s.obs
  /\ pc' = s.pc
  /\ UNCHANGED <<env, threads, open_lock, verifying, verifiers_lock, made>>

Install(s) == InstallRequest(s) /\ UNCHANGED session

(***************************************************************************)
(* What the collaborators may present in the deployment env                *)
(***************************************************************************)
\* tables.get_consensus(): no consensus yet, or the service's consensus with
\* this node primary or backup.
StoreConsensus ==
  {IF r = "none" THEN NullConsensus
   ELSE [present |-> TRUE, type |-> env.type, is_primary |-> (r = "primary")]
   : r \in env.roles}

HostPort(node) == <<node, "pubhost", "rpcport">>

\* nodes_view->get(primary_id): NoNode is the id of no node.
NodeInfo(primary_id) == IF primary_id = NoNode THEN {FALSE} ELSE env.node_info

(***************************************************************************)
(* Private helpers of RpcFrontend.  An operator named after a method takes *)
(* the state record s the method runs in and returns the set of states it  *)
(* can leave, one per answer of the collaborators it calls.                *)
(***************************************************************************)
update_consensus(s, c) ==
  IF s.fe.consensus # c
  THEN [s EXCEPT !.fe.consensus = c, !.reg.consensus = c]
  ELSE s

update_history(s, h) == [s EXCEPT !.fe.history = h, !.reg.history = h]

update_metrics(m, status) ==
  LET cat == status \div 100 IN
  IF cat = 4 THEN [m EXCEPT !.errors = @ + 1]
  ELSE IF cat = 5 THEN [m EXCEPT !.failures = @ + 1]
  ELSE m

set_response(s, status, body) ==
  [s EXCEPT !.ctx.status = status, !.ctx.body = body]

\* update_metrics(ctx, metrics) on the found endpoint's counters.
count_response(s) ==
  [s EXCEPT !.reg.metrics = update_metrics(@, s.ctx.status)]

\* return ctx->serialise_response(): the handler returns, its locals die.
serialise_response(s) ==
  [s EXCEPT !.ctx.result = "response", !.pc = "done", !.loc = IdleLoc]

\* return std::nullopt: the result is pending.
return_nullopt(s) ==
  [s EXCEPT !.ctx.result = "pending", !.pc = "done", !.loc = IdleLoc]

forward_or_redirect_json_always_forwarding(s) ==
  {return_nullopt([s EXCEPT !.obs.forwarded = TRUE])}
forward_or_redirect_json_forwarding_again(s) ==
  IF s.fe.cmd_forwarder
  THEN {return_nullopt([s EXCEPT !.obs.forwarded = TRUE])}
  ELSE {serialise_response(count_response(
          [s EXCEPT !.ctx.status = 307, !.obs.redirected = TRUE]))}
forward_or_redirect_json(s) ==
  IF s.fe.cmd_forwarder /\ s.ctx.original_caller = NoCaller
  THEN
    LET failed(x) ==
          serialise_response(count_response(set_response(
            x, 500, "RPC could not be forwarded to unknown primary.")))
        forwarded(x) ==
          return_nullopt([x EXCEPT !.obs.forwarded = TRUE,
                                   !.obs.forwarded_as = s.loc.caller_id])
        asked(primary_id) == [s EXCEPT !.obs.primary = primary_id]
    IN  IF s.fe.consensus # NullConsensus
        THEN UNION {
               IF primary_id # NoNode
               THEN {IF ok
                     THEN forwarded(asked(primary_id))
                     ELSE failed(asked(primary_id)) : ok \in env.forward_ok}
               ELSE {failed(asked(primary_id))} : primary_id \in env.primaries}
        ELSE {failed(s)}
  ELSE
    LET r == [s EXCEPT !.ctx.status = 307, !.obs.redirected = TRUE]
        finish(x) == serialise_response(count_response(x))
    IN  IF s.fe.consensus # NullConsensus
        THEN UNION {
               {finish(IF info
                       THEN [r EXCEPT !.ctx.location = HostPort(primary_id),
                                      !.obs.primary = primary_id]
                       ELSE [r EXCEPT !.obs.primary = primary_id])
                : info \in NodeInfo(primary_id)}
               : primary_id \in env.primaries}
        ELSE {finish(r)}

record_client_signature(s) ==
  IF s.fe.client_signatures_name = ""
  THEN s
  ELSE [s EXCEPT !.tx.writes = @ \cup
          {<<"client_signatures", s.loc.caller_id,
             IF s.fe.request_storing_disabled THEN "sig" ELSE "signed_req">>}]

\* The set of <<state, verdict>> pairs verify_client_signature can produce.
verify_client_signature(s) ==
  IF s.fe.client_signatures_name = ""
  THEN {<<[s EXCEPT !.obs.verified = "false"], FALSE>>}
  ELSE
    LET caller_id == s.loc.caller_id
        cached ==
          IF s.fe.verifiers[caller_id] # "none"
          THEN s
          ELSE [s EXCEPT !.fe.verifiers[caller_id] = s.ctx.caller_cert]
    IN  {<<[cached EXCEPT !.obs.verified = IF v THEN "true" ELSE "false"], v>>
         : v \in env.verify}

set_response_unauthorized(s, msg) ==
  [s EXCEPT !.ctx.status = 401,
            !.ctx.www_authenticate = "Signature",
            !.ctx.body = msg]

set_response_unauthorized_jwt(s, msg) ==
  [s EXCEPT !.ctx.status = 401,
            !.ctx.www_authenticate = "Bearer",
            !.ctx.body = msg]

\* The request reaches the check of a gate of process_command; it fails it.
evaluate(s, gate) == [s EXCEPT !.obs.gates = Append(@, gate)]
fail_gate(s, gate) == [s EXCEPT !.obs.failed = gate]

(***************************************************************************)
(* process_command, in the order of its code                               *)
(***************************************************************************)
\* The condition under which process_command takes the forward-or-redirect
\* path instead of executing the endpoint locally (TRUE: forward or redirect).
forwarding_decision_ignoring_execute_on_node(is_primary, type, forwarding_required, is_forwarding, execute_on_node, execute_locally) ==
  /\ ~is_primary
  /\ CASE forwarding_required = Never -> FALSE
       [] forwarding_required = Sometimes ->
            \/ (is_forwarding /\ type = CFT)
            \/ (type # CFT /\ ~execute_on_node /\ ~execute_locally)
       [] forwarding_required = Always -> TRUE
forwarding_decision(is_primary, type, forwarding_required, is_forwarding, execute_on_node, execute_locally) ==
  /\ ~is_primary
  /\ (type = CFT \/ (type # CFT /\ ~execute_on_node))
  /\ CASE forwarding_required = Never -> FALSE
       [] forwarding_required = Sometimes ->
            \/ (is_forwarding /\ type = CFT)
            \/ (type # CFT /\ ~execute_on_node /\ ~execute_locally)
       [] forwarding_required = Always -> TRUE

\* update_history() and the dispatch switch, up to the entry of the loop.
command_dispatch_falling_through(s) ==
  {[r EXCEPT !.ctx.result = "none", !.loc = s.loc, !.pc = "exec"]
   : r \in forward_or_redirect_json(s)}
command_dispatch_not_marking_session(s) ==
  LET dispatch(s1) ==
        IF forwarding_decision(
             s1.loc.is_primary, s1.fe.consensus.type,
             s1.reg.endpoint.forwarding_required, s1.ctx.is_forwarding,
             s1.ctx.execute_on_node, s1.reg.endpoint.execute_locally)
        THEN forward_or_redirect_json(
               [s1 EXCEPT !.obs.dispatch = "forward_or_redirect"])
        ELSE {[s1 EXCEPT !.fe.tx_count = @ + 1,
                         !.reg.interval_requests = @ + 1,
                         !.obs.args_caller = s1.loc.caller_id,
                         !.loc.attempts = 0,
                         !.obs.dispatch = "local",
                         !.pc = "exec"]}
  IN  UNION {dispatch(update_history(s, h)) : h \in env.history}
command_dispatch(s) ==
  LET dispatch(s1) ==
        IF forwarding_decision(
             s1.loc.is_primary, s1.fe.consensus.type,
             s1.reg.endpoint.forwarding_required, s1.ctx.is_forwarding,
             s1.ctx.execute_on_node, s1.reg.endpoint.execute_locally)
        THEN forward_or_redirect_json(
               [s1 EXCEPT !.ctx.is_forwarding = TRUE,
                          !.obs.dispatch = "forward_or_redirect"])
        ELSE {[s1 EXCEPT !.fe.tx_count = @ + 1,
                         !.reg.interval_requests = @ + 1,
                         !.obs.args_caller = s1.loc.caller_id,
                         !.loc.attempts = 0,
                         !.obs.dispatch = "local",
                         !.pc = "exec"]}
  IN  UNION {dispatch(update_history(s, h)) : h \in env.history}

\* The JWT requirement.
command_jwt_unchecked(s) == command_dispatch(s)
command_jwt(s) ==
  IF s.reg.endpoint.require_jwt_authentication
  THEN UNION {
         IF valid
         THEN command_dispatch(evaluate(s, "jwt"))
         ELSE {serialise_response(count_response(
                 set_response_unauthorized_jwt(
                   fail_gate(evaluate(s, "jwt"), "jwt"), "JWT error")))}
         : valid \in env.jwt}
  ELSE command_dispatch(s)

\* is_primary, the signature requirement and the signature verification.
command_signature_unverified(s) ==
  LET p == [s EXCEPT !.loc.is_primary =
              \/ ~s.fe.consensus.present
              \/ s.fe.consensus.is_primary
              \/ s.ctx.is_create_request]
  IN  IF s.reg.endpoint.require_client_signature /\ s.ctx.signed = "none"
      THEN {serialise_response(count_response(set_response_unauthorized(
              fail_gate(evaluate(p, "signature_requirement"),
                        "signature_requirement"), "RPC must be signed")))}
      ELSE command_jwt([p EXCEPT !.loc.should_record_client_signature =
                          s.ctx.signed # "none" /\ p.loc.is_primary])
command_signature(s) ==
  LET p == [s EXCEPT !.loc.is_primary =
              \/ ~s.fe.consensus.present
              \/ s.fe.consensus.is_primary
              \/ s.ctx.is_create_request]
      reject(x, msg) ==
        serialise_response(count_response(set_response_unauthorized(x, msg)))
      record(x) ==
        [x EXCEPT !.loc.should_record_client_signature = x.loc.is_primary]
      q == IF s.reg.endpoint.require_client_signature
           THEN evaluate(p, "signature_requirement")
           ELSE p
  IN  IF s.reg.endpoint.require_client_signature /\ s.ctx.signed = "none"
      THEN {reject(fail_gate(q, "signature_requirement"), "RPC must be signed")}
      ELSE IF s.ctx.signed # "none"
      THEN
        IF /\ ~s.ctx.is_create_request
           /\ \/ ~(s.fe.consensus.present /\ s.fe.consensus.type = CFT)
              \/ s.ctx.original_caller = NoCaller
        THEN UNION {
               IF v[2]
               THEN command_jwt(record(v[1]))
               ELSE {reject(fail_gate(v[1], "signature_verification"),
                            "Failed to verify client signature")}
               : v \in verify_client_signature(
                         evaluate(q, "signature_verification"))}
        ELSE command_jwt(record(q))
      ELSE command_jwt(q)

\* The identity requirement.
command_identity_unchecked(s) == command_signature(s)
command_identity(s) ==
  IF s.reg.endpoint.require_client_identity /\ s.reg.has_certs
  THEN
    LET g == evaluate(s, "identity")
        reject ==
          serialise_response(count_response(set_response(
            fail_gate(g, "identity"), 403,
            "Could not find matching actor certificate")))
    IN  IF s.ctx.original_caller # NoCaller
        THEN UNION {
               IF ~known \/ s.loc.caller_id = INVALID_ID
               THEN {reject}
               ELSE command_signature(g)
               : known \in env.lookup_forwarded}
        ELSE IF s.loc.caller_id = INVALID_ID
        THEN {reject}
        ELSE command_signature(g)
  ELSE command_signature(s)

\* On signed requests the caller id is the key id that signed the request.
command_caller_keeping_session(s) == command_identity(s)
command_caller(s) ==
  IF s.ctx.signed # "none"
  THEN
    LET cid == IF s.ctx.signed = "known_key" THEN SignerId ELSE INVALID_ID IN
    IF cid # INVALID_ID
    THEN UNION {
           command_identity(
             [s EXCEPT !.loc.caller_id = cid,
                       !.obs.caller_id = cid,
                       !.ctx.caller_cert =
                          IF resolved THEN "signer_cert" ELSE @])
           : resolved \in env.resolve}
    ELSE command_identity(s)
  ELSE command_identity(s)

process_command_uncounted(s0, caller_id, pre_exec) ==
  LET s == [s0 EXCEPT !.loc.caller_id = caller_id,
                      !.loc.pre_exec = pre_exec,
                      !.obs.caller_id = caller_id,
                      !.obs.gates = <<"lookup">>,
                      !.obs.lookups = @ + 1]
  IN  IF s.ctx.lookup = "found"
      THEN command_caller([s EXCEPT !.obs.endpoint_found = TRUE])
      ELSE {serialise_response([s EXCEPT !.ctx.status = 404])}
process_command(s0, caller_id, pre_exec) ==
  LET s == [s0 EXCEPT !.loc.caller_id = caller_id,
                      !.loc.pre_exec = pre_exec,
                      !.obs.caller_id = caller_id,
                      !.obs.gates = <<"lookup">>,
                      !.obs.lookups = @ + 1]
  IN  IF s.ctx.lookup = "no_path"
      THEN {serialise_response(
              [s EXCEPT !.obs.failed = "lookup",
                        !.ctx.status = 404,
                        !.ctx.content_type = "text/plain",
                        !.ctx.body = "Unknown path"])}
      ELSE IF s.ctx.lookup = "wrong_verb"
      THEN {serialise_response(
              [s EXCEPT !.obs.failed = "lookup",
                        !.ctx.status = 405,
                        !.ctx.allow = "allowed verbs",
                        !.ctx.body = "Allowed methods"])}
      ELSE command_caller([s EXCEPT !.reg.metrics.calls = @ + 1,
                                    !.obs.endpoint_found = TRUE])

(***************************************************************************)
(* The retry loop of process_command: one iteration per step               *)
(***************************************************************************)
\* The ways the try block can end in state s: an exception can only come
\* from code that runs.
possible_outcomes(s) ==
  {o \in env.outcomes :
     /\ o.at = "pre_exec" => s.loc.pre_exec
     /\ o.at = "record" =>
          /\ s.loc.should_record_client_signature
          /\ s.fe.client_signatures_name # ""}

\* ctx->set_seqno / set_view after a commit that returned OK.
set_seqno_from_commit_version(s, version) ==
  IF s.fe.consensus # NullConsensus /\ version.commit_version # NoVersion
  THEN [s EXCEPT !.ctx.seqno = version.commit_version,
                 !.ctx.view = version.commit_term]
  ELSE s
set_seqno_and_view(s, version) ==
  LET cv == IF version.commit_version = "0"
            THEN version.read_version
            ELSE version.commit_version
  IN  IF s.fe.consensus # NullConsensus /\ cv # NoVersion
      THEN [s EXCEPT !.ctx.seqno = cv, !.ctx.view = version.commit_term]
      ELSE s

\* The calls of tx.commit() since the previous tick, counted on the
\* deployments whose ticks are observed.
commit_counted(s) ==
  IF env.observe_interval
  THEN [s EXCEPT !.reg.interval_commits = @ + 1]
  ELSE s

\* One iteration of the loop body whose try block ends as o says.
attempt_retrying_everything(s, o) ==
  [s EXCEPT !.loc.attempts = @ + 1, !.obs.outcome = o,
            !.obs.executed = TRUE, !.obs.runs = 1, !.obs.commits = 0,
            !.obs.reset_called = FALSE]
attempt(s, o) ==
  LET a == [s EXCEPT !.loc.attempts = @ + 1,
                     !.obs.outcome = o,
                     !.obs.runs = 0,
                     !.obs.commits = 0,
                     !.obs.reset_called = FALSE]
      pre ==
        IF a.loc.pre_exec
        THEN [a EXCEPT !.tx.writes = @ \cup
                {<<"aft_requests", a.ctx.original_caller, "request">>}]
        ELSE a
      rec ==
        IF pre.loc.should_record_client_signature
        THEN record_client_signature(pre)
        ELSE pre
      ran == [rec EXCEPT !.obs.executed = TRUE,
                         !.obs.runs = @ + 1,
                         !.tx.writes = @ \cup {<<"app", "key", "value">>}]
      answered == [ran EXCEPT !.ctx.status = o.status]
      committed == commit_counted(
                     [answered EXCEPT !.obs.commit_called = TRUE,
                                      !.obs.commits = @ + 1])
      thrown_in ==
        CASE o.at = "pre_exec" -> a
          [] o.at = "record" -> pre
          [] o.at = "endpoint" -> ran
          [] o.at = "commit" ->
               commit_counted(
                 [ran EXCEPT !.obs.commit_called = TRUE,
                             !.obs.commits = @ + 1])
          [] OTHER -> a
      finish(x) == serialise_response(count_response(x))
  IN  CASE o.kind = "no_apply" -> finish(answered)
        [] o.kind = "OK" -> finish(set_seqno_and_view(committed, o.version))
        [] o.kind = "CONFLICT" -> committed
        [] o.kind = "NO_REPLICATE" ->
             finish(set_response(
               committed, 500, "Transaction failed to replicate."))
        [] o.kind = "CompactedVersionConflict" ->
             [thrown_in EXCEPT !.tx.writes = {}, !.obs.reset_called = TRUE]
        [] o.kind = "RpcException" ->
             finish(set_response(thrown_in, o.status, "e.what()"))
        [] o.kind = "JsonParseError" ->
             finish(set_response(thrown_in, 400, "At pointer: e.what()"))
        [] o.kind = "KvSerialiserException" ->
             [thrown_in EXCEPT !.ctx.result = "abort", !.pc = "aborted"]
        [] o.kind = "std::exception" ->
             finish(set_response(thrown_in, 500, "e.what()"))

retry_loop_unbounded(s) == {attempt(s, o) : o \in possible_outcomes(s)}
retry_loop(s) ==
  IF s.loc.attempts < max_attempts
  THEN {attempt(s, o) : o \in possible_outcomes(s)}
  ELSE {serialise_response(set_response(
          s, 409, "Transaction continued to conflict after 30 attempts."))}

(***************************************************************************)
(* Public methods                                                          *)
(***************************************************************************)
open(s, identity) ==
  IF identity # NoIdentity
  THEN [s EXCEPT !.fe.service_identity = identity]
  ELSE IF ~s.fe.is_open_
  THEN [s EXCEPT !.fe.is_open_ = TRUE, !.reg.init_handlers_calls = @ + 1]
  ELSE s

\* is_open(tx): the states it can leave; its result is is_open_ there.
is_open_rereading(s) ==
  {[s EXCEPT !.obs.service_record = sv,
             !.fe.is_open_ =
               /\ sv.status = "OPEN"
               /\ s.fe.service_identity # NoIdentity
               /\ sv.cert = s.fe.service_identity]
   : sv \in env.records}
is_open_any_identity(s) ==
  IF ~s.fe.is_open_
  THEN {IF sv # NoRecord /\ sv.status = "OPEN"
        THEN [s EXCEPT !.obs.service_record = sv,
                       !.fe.is_open_ = TRUE,
                       !.reg.init_handlers_calls = @ + 1]
        ELSE [s EXCEPT !.obs.service_record = sv] : sv \in env.records}
  ELSE {s}
is_open(s) ==
  IF ~s.fe.is_open_
  THEN {IF /\ sv # NoRecord
           /\ sv.status = "OPEN"
           /\ s.fe.service_identity # NoIdentity
           /\ sv.cert = s.fe.service_identity
        THEN [s EXCEPT !.obs.service_record = sv,
                       !.fe.is_open_ = TRUE,
                       !.reg.init_handlers_calls = @ + 1]
        ELSE [s EXCEPT !.obs.service_record = sv] : sv \in env.records}
  ELSE {s}

process_open_executing(s) ==
  process_command([s EXCEPT !.obs.lookups = @ + 1], s.ctx.cert_id, FALSE)
process_open(s) ==
  LET caller_id == s.ctx.cert_id
      found == [s EXCEPT !.obs.lookups = @ + 1]
      is_bft == s.fe.consensus.present /\ s.fe.consensus.type = BFT
      is_local ==
        s.ctx.lookup = "found" /\ s.reg.endpoint.execute_locally
      should_bft_distribute ==
        /\ is_bft
        /\ ~is_local
        /\ (s.ctx.execute_on_node \/ s.fe.consensus.is_primary)
      reqid == <<caller_id, "client_session_id", "request_index">>
      fail(x, msg) == serialise_response(set_response(x, 500, msg))
      distribute(x) ==
        IF x.fe.history # NullHistory
        THEN {IF added
              THEN return_nullopt(
                     [x EXCEPT !.obs.history_added = TRUE,
                               !.tx.req_id = reqid])
              ELSE fail(x, "Could not process request.")
              : added \in env.add_request}
        ELSE {fail(x, "Consensus is not yet ready.")}
  IN  IF should_bft_distribute
      THEN UNION {distribute(update_history(found, h)) : h \in env.history}
      ELSE process_command(found, caller_id, FALSE)

process_ungated(s) ==
  UNION {process_open(update_consensus(s, c)) : c \in StoreConsensus}
process(s) ==
  LET gate(u) ==
        UNION {IF ~o.fe.is_open_
               THEN {serialise_response(
                       set_response(o, 404, "Frontend is not open."))}
               ELSE process_open(o) : o \in is_open(u)}
  IN  UNION {gate(update_consensus(s, c)) : c \in StoreConsensus}

\* rep.value() on the result of process_command.
rep_value(s) ==
  IF s.pc = "done" /\ s.ctx.result = "pending"
  THEN [s EXCEPT !.ctx.result = "bad_optional_access"]
  ELSE s

throw_logic_error(s) ==
  [s EXCEPT !.ctx.result = "logic_error", !.pc = "done", !.loc = IdleLoc]

\* process_bft on the store answers C of its update_consensus() call.
process_bft_on(s, C) ==
  LET run(o) ==
        UNION {{rep_value(r) :
                  r \in process_command(
                          update_consensus(o, c), o.ctx.original_caller, TRUE)}
               : c \in C}
  IN  UNION {IF ~o.fe.is_open_ THEN {throw_logic_error(o)} ELSE run(o)
             : o \in is_open(s)}

process_bft(s) == process_bft_on(s, StoreConsensus)

\* A forwarded request reaches a node through its consensus' node-to-node
\* channel: the store has a consensus when process_forwarded is called.
process_forwarded(s) ==
  IF s.ctx.original_caller = NoCaller
  THEN {throw_logic_error(s)}
  ELSE
    LET run(u) ==
          IF u.fe.consensus.type = CFT
          THEN {IF r.pc = "done" /\ r.ctx.result = "pending"
                THEN throw_logic_error(r)
                ELSE r
                : r \in process_command(u, u.ctx.original_caller, FALSE)}
          ELSE process_bft_on(u, {u.fe.consensus})
    IN  UNION {run(update_consensus(s, c))
               : c \in StoreConsensus \ {NullConsensus}}

(***************************************************************************)
(* The state machine                                                       *)
(***************************************************************************)
\* The requests the transport (entry "process"), a forwarding peer
\* ("process_forwarded") or the consensus ("process_bft") can hand over.
Requests(entry) ==
  {[IdleCtx EXCEPT !.entry = entry,
                   !.lookup = l,
                   !.signed = sg,
                   !.cert_id = IF entry = "process" THEN c ELSE INVALID_ID,
                   !.original_caller = IF entry = "process" THEN NoCaller ELSE c,
                   !.is_create_request = cr,
                   !.execute_on_node = eon,
                   !.is_forwarding = f]
   : l \in env.lookups, sg \in env.signed, c \in env.callers,
     cr \in env.create, eon \in env.execute_on_node, f \in env.forwarding}

Starting(c) ==
  [State EXCEPT !.ctx = c,
                !.tx = IdleTx,
                !.loc = IdleLoc,
                !.obs = [IdleObs EXCEPT !.was_forwarding = c.is_forwarding]]

\* tick(elapsed): the statistics handed to the registry's tick carry
\* tx_count, which is then reset.  interval_requests and interval_commits
\* count, since the previous tick, the requests that entered the retry loop
\* and the calls of tx.commit().
tick_keeping_count(s0) ==
  {LET s == update_consensus(s0, c)
   IN  [s EXCEPT !.reg.stats_tx_count = s.fe.tx_count,
                 !.reg.ticks = @ + 1,
                 !.reg.interval_requests = 0,
                 !.reg.interval_commits = 0]
   : c \in StoreConsensus}
tick(s0) ==
  {LET s == update_consensus(s0, c)
   IN  [s EXCEPT !.reg.stats_tx_count = s.fe.tx_count,
                 !.reg.ticks = @ + 1,
                 !.reg.interval_requests = 0,
                 !.reg.interval_commits = 0,
                 !.fe.tx_count = 0]
   : c \in StoreConsensus}

Bounded(s) == s.reg.metrics.calls <= MaxCalls

Open ==
  /\ pc = "idle"
  /\ \E identity \in env.open_args : Install(open(State, identity))

SetCmdForwarder ==
  /\ pc = "idle"
  /\ \E f \in env.forwarders : Install([State EXCEPT !.fe.cmd_forwarder = f])

Process ==
  /\ pc = "idle"
  /\ \E c \in Requests("process") :
       \E s \in process(Starting(c)) : Bounded(s) /\ Install(s)

ProcessForwarded ==
  /\ pc = "idle"
  /\ \E c \in Requests("process_forwarded") :
       \E s \in process_forwarded(Starting(c)) : Bounded(s) /\ Install(s)

ProcessBft ==
  /\ pc = "idle"
  /\ env.type = BFT
  /\ \E c \in Requests("process_bft") :
       \E s \in process_bft(Starting(c)) : Bounded(s) /\ Install(s)

Execute ==
  /\ pc = "exec"
  /\ \E s \in retry_loop(State) : Install(s)

\* The caller takes the result; the request's objects are released.
Return ==
  /\ pc = "done"
  /\ Install([State EXCEPT !.ctx = IdleCtx,
                           !.tx = IdleTx,
                           !.loc = IdleLoc,
                           !.obs = IdleObs,
                           !.pc = "idle"])

(***************************************************************************)
(* open() and is_open() statement by statement, for concurrent callers.    *)
(* Each caller thread is at one statement of one of the two methods;       *)
(* open_lock is the thread holding the SpinLock, or NoThread.              *)
(***************************************************************************)
\* std::lock_guard<SpinLock> mguard(open_lock): the constructor returns
\* only once the lock is free.
lock_guard_unguarded(lock) == TRUE
lock_guard(lock) == lock = NoThread

At(t, where) == threads[t].pc = where

Goto(t, where) == threads' = [threads EXCEPT ![t].pc = where]

Frozen ==
  UNCHANGED <<ctx, tx, loc, obs, pc, env, verifying, verifiers_lock, made,
              session>>

\* A caller enters open(identity).
CallOpen(t) ==
  /\ At(t, "idle")
  /\ \E identity \in env.open_args :
       threads' = [threads EXCEPT ![t] = [pc |-> "open_lock",
                                          identity |-> identity,
                                          result |-> "none"]]
  /\ UNCHANGED <<fe, reg, open_lock>>
  /\ Frozen

\* A caller (process, process_bft) enters is_open(tx).
CallIsOpen(t) ==
  /\ At(t, "idle")
  /\ threads' = [threads EXCEPT ![t] = [pc |-> "is_open_lock",
                                        identity |-> NoIdentity,
                                        result |-> "none"]]
  /\ UNCHANGED <<fe, reg, open_lock>>
  /\ Frozen

\* open, the lock_guard.
OpenLock(t) ==
  /\ At(t, "open_lock")
  /\ lock_guard(open_lock)
  /\ open_lock' = t
  /\ Goto(t, "open_identity")
  /\ UNCHANGED <<fe, reg>>
  /\ Frozen

\* open, if (identity.has_value()) ... else if (!is_open_).
OpenIdentity(t) ==
  /\ At(t, "open_identity")
  /\ IF threads[t].identity # NoIdentity
     THEN /\ fe' = [fe EXCEPT !.service_identity = threads[t].identity]
          /\ Goto(t, "open_unlock")
     ELSE /\ fe' = fe
          /\ Goto(t, IF ~fe.is_open_ THEN "open_set" ELSE "open_unlock")
  /\ UNCHANGED <<reg, open_lock>>
  /\ Frozen

\* open, is_open_ = true.
OpenSet(t) ==
  /\ At(t, "open_set")
  /\ fe' = [fe EXCEPT !.is_open_ = TRUE]
  /\ Goto(t, "open_init")
  /\ UNCHANGED <<reg, open_lock>>
  /\ Frozen

\* open, endpoints.init_handlers(tables).
OpenInit(t) ==
  /\ At(t, "open_init")
  /\ reg' = [reg EXCEPT !.init_handlers_calls = @ + 1]
  /\ Goto(t, "open_unlock")
  /\ UNCHANGED <<fe, open_lock>>
  /\ Frozen

\* open returns; the guard releases the lock.
OpenUnlock(t) ==
  /\ At(t, "open_unlock")
  /\ open_lock' = NoThread
  /\ Goto(t, "idle")
  /\ UNCHANGED <<fe, reg>>
  /\ Frozen

\* is_open, the lock_guard.
IsOpenLock(t) ==
  /\ At(t, "is_open_lock")
  /\ lock_guard(open_lock)
  /\ open_lock' = t
  /\ Goto(t, "is_open_test")
  /\ UNCHANGED <<fe, reg>>
  /\ Frozen

\* is_open, if (!is_open_).
IsOpenTest(t) ==
  /\ At(t, "is_open_test")
  /\ Goto(t, IF ~fe.is_open_ THEN "is_open_read" ELSE "is_open_return")
  /\ UNCHANGED <<fe, reg, open_lock>>
  /\ Frozen

\* is_open, the globally committed service record and the comparison with
\* service_identity.
IsOpenRead(t) ==
  /\ At(t, "is_open_read")
  /\ \E sv \in env.records :
       Goto(t, IF /\ sv # NoRecord
                  /\ sv.status = "OPEN"
                  /\ fe.service_identity # NoIdentity
                  /\ sv.cert = fe.service_identity
               THEN "is_open_set"
               ELSE "is_open_return")
  /\ UNCHANGED <<fe, reg, open_lock>>
  /\ Frozen

\* is_open, is_open_ = true.
IsOpenSet(t) ==
  /\ At(t, "is_open_set")
  /\ fe' = [fe EXCEPT !.is_open_ = TRUE]
  /\ Goto(t, "is_open_init")
  /\ UNCHANGED <<reg, open_lock>>
  /\ Frozen

\* is_open, endpoints.init_handlers(tables).
IsOpenInit(t) ==
  /\ At(t, "is_open_init")
  /\ reg' = [reg EXCEPT !.init_handlers_calls = @ + 1]
  /\ Goto(t, "is_open_return")
  /\ UNCHANGED <<fe, open_lock>>
  /\ Frozen

\* is_open, return is_open_; the guard releases the lock.
IsOpenReturn(t) ==
  /\ At(t, "is_open_return")
  /\ threads' = [threads EXCEPT ![t].pc = "idle",
                                ![t].result = IF fe.is_open_ THEN "true"
                                              ELSE "false"]
  /\ open_lock' = NoThread
  /\ UNCHANGED <<fe, reg>>
  /\ Frozen

NextLock ==
  \E t \in Threads :
    \/ CallOpen(t)
    \/ CallIsOpen(t)
    \/ OpenLock(t)
    \/ OpenIdentity(t)
    \/ OpenSet(t)
    \/ OpenInit(t)
    \/ OpenUnlock(t)
    \/ IsOpenLock(t)
    \/ IsOpenTest(t)
    \/ IsOpenRead(t)
    \/ IsOpenSet(t)
    \/ IsOpenInit(t)
    \/ IsOpenReturn(t)

(***************************************************************************)
(* verify_client_signature statement by statement, for concurrent callers. *)
(* verifiers_lock is the thread holding the SpinLock, or NoThread.         *)
(***************************************************************************)
VerifyingAt(t, where) == verifying[t].pc = where

VerifyingGoto(t, where) == verifying' = [verifying EXCEPT ![t].pc = where]

Elsewhere ==
  UNCHANGED <<reg, ctx, tx, loc, obs, pc, env, threads, open_lock, session>>

\* verifiers.find(caller_id) != verifiers.end()
verifiers_find(cache, caller_id) == cache[caller_id] # NoVerifier

\* verifiers.emplace(caller_id, verifier): an existing entry is kept.
verifiers_emplace(cache, caller_id, verifier) ==
  IF cache[caller_id] = NoVerifier
  THEN [cache EXCEPT ![caller_id] = verifier]
  ELSE cache

\* tls::make_verifier(caller): the verifier of that certificate.
make_verifier(caller) == caller

\* A request enters verify_client_signature(caller, caller_id, signed_request);
\* with no signatures table it returns false at once.
VerifyCall(t) ==
  /\ VerifyingAt(t, "idle")
  /\ \E caller_id \in env.callers, caller \in env.certs :
       verifying' =
         [verifying EXCEPT ![t] =
            IF fe.client_signatures_name = ""
            THEN [IdleVerifying EXCEPT !.result = "false"]
            ELSE [pc |-> "lock", caller_id |-> caller_id, caller |-> caller,
                  verifier |-> NoVerifier, result |-> "none"]]
  /\ UNCHANGED <<fe, verifiers_lock, made>>
  /\ Elsewhere

\* The lock_guard on verifiers_lock.
VerifyLock(t) ==
  /\ VerifyingAt(t, "lock")
  /\ lock_guard(verifiers_lock)
  /\ verifiers_lock' = t
  /\ VerifyingGoto(t, "find")
  /\ UNCHANGED <<fe, made>>
  /\ Elsewhere

\* auto v = verifiers.find(caller_id); if (v == verifiers.end()).
VerifyFind(t) ==
  /\ VerifyingAt(t, "find")
  /\ VerifyingGoto(t, IF verifiers_find(fe.verifiers, verifying[t].caller_id)
                      THEN "read"
                      ELSE "emplace")
  /\ made' = [made EXCEPT ![verifying[t].caller_id].first =
                IF @ = "none" THEN verifying[t].caller ELSE @]
  /\ UNCHANGED <<fe, verifiers_lock>>
  /\ Elsewhere

\* verifiers.emplace(std::make_pair(caller_id, tls::make_verifier(caller))).
VerifyEmplace(t) ==
  /\ VerifyingAt(t, "emplace")
  /\ fe' = [fe EXCEPT !.verifiers =
              verifiers_emplace(@, verifying[t].caller_id,
                                make_verifier(verifying[t].caller))]
  /\ made' = [made EXCEPT ![verifying[t].caller_id].count = @ + 1]
  /\ VerifyingGoto(t, "read")
  /\ UNCHANGED verifiers_lock
  /\ Elsewhere

\* verifier = verifiers[caller_id]; the guard's scope ends.
VerifyRead(t) ==
  /\ VerifyingAt(t, "read")
  /\ verifying' =
       [verifying EXCEPT ![t].pc = "verify",
                         ![t].verifier = fe.verifiers[verifying[t].caller_id]]
  /\ verifiers_lock' = NoThread
  /\ UNCHANGED <<fe, made>>
  /\ Elsewhere

\* return verifier->verify(...), outside the lock.
VerifyReturn(t) ==
  /\ VerifyingAt(t, "verify")
  /\ \E v \in env.verify :
       verifying' = [verifying EXCEPT ![t].pc = "idle",
                                      ![t].result = IF v THEN "true"
                                                    ELSE "false"]
  /\ UNCHANGED <<fe, verifiers_lock, made>>
  /\ Elsewhere

NextVerifiers ==
  \E t \in Threads :
    \/ VerifyCall(t)
    \/ VerifyLock(t)
    \/ VerifyFind(t)
    \/ VerifyEmplace(t)
    \/ VerifyRead(t)
    \/ VerifyReturn(t)

(***************************************************************************)
(* The requests of one session.  ctx->session is shared by the requests    *)
(* of a connection: each request starts with the is_forwarding the         *)
(* previous one left, and finds the endpoint of its own method.  arrived   *)
(* and took_path remember how the session arrived and whether one of its   *)
(* requests has taken the forward-or-redirect path.                        *)
(***************************************************************************)
SessionProcess ==
  /\ pc = "idle"
  /\ \E c \in Requests("process"), e \in env.endpoints :
       /\ c.is_forwarding = session.is_forwarding
       /\ \E s \in process([Starting(c) EXCEPT !.reg.endpoint = e]) :
            /\ s.reg.metrics.calls <= MaxSessionCalls
            /\ InstallRequest(s)
            /\ session' =
                 [session EXCEPT
                    !.is_forwarding = s.ctx.is_forwarding,
                    !.took_path =
                      @ \/ s.obs.dispatch = "forward_or_redirect"]

NextSession ==
  \/ Open
  \/ SetCmdForwarder
  \/ SessionProcess
  \/ Execute
  \/ Return

Tick ==
  /\ pc = "idle"
  /\ reg.ticks < MaxTicks
  /\ \E s \in tick(State) : Install(s)

NextTick ==
  \/ Open
  \/ SetCmdForwarder
  \/ Process
  \/ ProcessForwarded
  \/ ProcessBft
  \/ Execute
  \/ Return
  \/ Tick

Next ==
  \/ Open
  \/ SetCmdForwarder
  \/ Process
  \/ ProcessForwarded
  \/ ProcessBft
  \/ Execute
  \/ Return

\* The frontend after construction, in deployment d.
Constructed(d) ==
  /\ env = d
  /\ fe = [is_open_ |-> FALSE,
           service_identity |-> NoIdentity,
           cmd_forwarder |-> FALSE,
           consensus |-> NullConsensus,
           history |-> NullHistory,
           tx_count |-> 0,
           verifiers |-> [c \in CallerIds |-> "none"],
           client_signatures_name |-> d.client_signatures_name,
           request_storing_disabled |-> d.request_storing_disabled]
  /\ reg = [endpoint |-> d.endpoint,
            has_certs |-> d.has_certs,
            metrics |-> [calls |-> 0, errors |-> 0, failures |-> 0],
            init_handlers_calls |-> 0,
            ticks |-> 0,
            stats_tx_count |-> 0,
            interval_requests |-> 0,
            interval_commits |-> 0,
            consensus |-> NullConsensus,
            history |-> NullHistory]
  /\ ctx = IdleCtx
  /\ tx = IdleTx
  /\ loc = IdleLoc
  /\ obs = IdleObs
  /\ pc = "idle"
  /\ threads = [t \in Threads |-> IdleThread]
  /\ open_lock = NoThread
  /\ verifying = [t \in Threads |-> IdleVerifying]
  /\ verifiers_lock = NoThread
  /\ made = [c \in CallerIds |-> NothingMade]
  /\ session \in {[is_forwarding |-> f, arrived |-> f, took_path |-> FALSE]
                  : f \in d.session_arrives}

(***************************************************************************)
(* Deployments                                                             *)
(***************************************************************************)
PlainEndpoint ==
  [require_client_identity |-> FALSE,
   require_client_signature |-> FALSE,
   require_jwt_authentication |-> FALSE,
   execute_locally |-> FALSE,
   forwarding_required |-> Never]

BaseDeployment ==
  [type |-> CFT,
   roles |-> {"primary"},
   open_args |-> {NoIdentity},
   records |-> {NoRecord},
   forwarders |-> {TRUE},
   lookups |-> {"found"},
   signed |-> {"none"},
   callers |-> {"user0"},
   create |-> {FALSE},
   execute_on_node |-> {FALSE},
   forwarding |-> {FALSE},
   history |-> {"history"},
   add_request |-> {TRUE},
   lookup_forwarded |-> {TRUE},
   resolve |-> {FALSE},
   verify |-> {TRUE},
   jwt |-> {TRUE},
   primaries |-> {"n0"},
   forward_ok |-> {TRUE},
   node_info |-> {TRUE},
   outcomes |-> AllOutcomes,
   endpoint |-> PlainEndpoint,
   has_certs |-> TRUE,
   certs |-> {"session_cert"},
   session_arrives |-> {FALSE},
   endpoints |-> {PlainEndpoint},
   observe_interval |-> FALSE,
   client_signatures_name |-> "signatures",
   request_storing_disabled |-> FALSE]

Endpoint(identity, signature, jwt, locally, forwarding) ==
  [require_client_identity |-> identity,
   require_client_signature |-> signature,
   require_jwt_authentication |-> jwt,
   execute_locally |-> locally,
   forwarding_required |-> forwarding]

Committing ==
  [at |-> "commit", kind |-> "OK", status |-> 200, version |-> Written]
Serialising ==
  [at |-> "commit", kind |-> "KvSerialiserException", status |-> 200]
Throwing == [at |-> "endpoint", kind |-> "RpcException", status |-> 400]
Conflicting == [at |-> "commit", kind |-> "CONFLICT", status |-> 200]

\* Lifecycle: the ways a frontend is opened, on every consensus and role.
LifecycleDeployments ==
  {[BaseDeployment EXCEPT
      !.type = t,
      !.roles = {"none", "primary", "backup"},
      !.open_args = {NoIdentity, "H0", "H1"},
      !.records = {NoRecord,
                   [status |-> "OPENING", cert |-> "H0"],
                   [status |-> "OPEN", cert |-> "H0"],
                   [status |-> "OPEN", cert |-> "H1"]},
      !.lookups = {"found", "no_path", "wrong_verb"},
      !.execute_on_node = BOOLEAN,
      !.history = {NullHistory, "history"},
      !.outcomes = {Committing},
      !.endpoint = Endpoint(FALSE, FALSE, FALSE, FALSE, f)]
   : t \in {CFT, BFT}, f \in {Never, Always}}

\* Executor: every way an attempt can end, on the nodes that execute.
ExecutorDeployments ==
  {[BaseDeployment EXCEPT
      !.type = t,
      !.signed = {"none", "known_key"},
      !.outcomes = AllOutcomes]
   : t \in {CFT, BFT}}

\* Dispatch: every role, consensus type, endpoint forwarding policy and
\* request flag, with a forwarder and a primary that may be missing.
DispatchDeployments ==
  {[BaseDeployment EXCEPT
      !.type = t,
      !.roles = {"none", "primary", "backup"},
      !.lookups = {"found", "no_path"},
      !.signed = {"none", "known_key"},
      !.create = BOOLEAN,
      !.execute_on_node = BOOLEAN,
      !.forwarding = BOOLEAN,
      !.history = {NullHistory, "history"},
      !.add_request = BOOLEAN,
      !.primaries = {NoNode, "n0"},
      !.forward_ok = BOOLEAN,
      !.node_info = BOOLEAN,
      !.outcomes = {Committing, Serialising, Throwing},
      !.endpoint = Endpoint(FALSE, FALSE, FALSE, l, f)]
   : t \in {CFT, BFT}, l \in BOOLEAN, f \in ForwardingRequired}

\* Authentication: every endpoint requirement, caller and certificate store.
AuthDeployments ==
  {[BaseDeployment EXCEPT
      !.type = t,
      !.roles = {"none", "primary", "backup"},
      !.lookups = {"found", "no_path", "wrong_verb"},
      !.signed = {"none", "unknown_key", "known_key"},
      !.callers = SessionCallers,
      !.create = BOOLEAN,
      !.lookup_forwarded = BOOLEAN,
      !.resolve = BOOLEAN,
      !.verify = BOOLEAN,
      !.jwt = BOOLEAN,
      !.outcomes = {Committing},
      !.has_certs = h,
      !.client_signatures_name = n,
      !.endpoint = Endpoint(i, s, j, FALSE, Never)]
   : t \in {CFT, BFT}, h \in BOOLEAN, n \in {"", "signatures"},
     i \in BOOLEAN, s \in BOOLEAN, j \in BOOLEAN}

Declining == [at |-> "should_apply_writes", kind |-> "no_apply", status |-> 200]
NotReplicating == [at |-> "commit", kind |-> "NO_REPLICATE", status |-> 200]
Compacted ==
  [at |-> "endpoint", kind |-> "CompactedVersionConflict", status |-> 200]

\* Signed requests: every caller, key, table configuration and way to end.
SignatureDeployments ==
  {[BaseDeployment EXCEPT
      !.type = t,
      !.roles = {"none", "primary", "backup"},
      !.signed = {"unknown_key", "known_key"},
      !.callers = SessionCallers,
      !.create = BOOLEAN,
      !.resolve = BOOLEAN,
      !.verify = BOOLEAN,
      !.outcomes = {Committing, Declining, NotReplicating, Throwing,
                    Compacted},
      !.client_signatures_name = n,
      !.request_storing_disabled = d,
      !.endpoint = Endpoint(i, FALSE, FALSE, FALSE, f)]
   : t \in {CFT, BFT}, n \in {"", "signatures"}, d \in BOOLEAN,
     i \in BOOLEAN, f \in {Never, Always}}

\* Commit: every version the transaction can report, with and without a
\* consensus.
CommitDeployments ==
  {[BaseDeployment EXCEPT
      !.type = t,
      !.roles = {"none", "primary", "backup"},
      !.create = BOOLEAN,
      !.outcomes = {Declining, Throwing}
                     \cup {[Committing EXCEPT !.version = v] : v \in Versions}]
   : t \in {CFT, BFT}}

\* Concurrent callers of open and is_open: every identity and every
\* content of the service record.
LockDeployments ==
  {[BaseDeployment EXCEPT
      !.open_args = {NoIdentity, "H0"},
      !.records = {NoRecord, [status |-> "OPENING", cert |-> "H0"],
                   [status |-> "OPEN", cert |-> "H0"],
                   [status |-> "OPEN", cert |-> "H1"]}]}

\* Ticks between requests that commit, conflict, throw or decline to
\* write, and requests that never reach the retry loop.
TickDeployments ==
  {[BaseDeployment EXCEPT
      !.type = t,
      !.roles = {"none", "primary", "backup"},
      !.lookups = {"found", "no_path"},
      !.observe_interval = TRUE,
      !.outcomes = {Committing, Conflicting, Throwing, Declining}]
   : t \in {CFT, BFT}}

\* Concurrent signature verifications: two caller ids, each presenting
\* either of two certificates, with and without a signatures table.
VerifierDeployments ==
  {[BaseDeployment EXCEPT
      !.callers = {"user0", SignerId},
      !.certs = {"cert_a", "cert_b"},
      !.verify = BOOLEAN,
      !.client_signatures_name = n]
   : n \in {"", "signatures"}}

\* One session: requests for endpoints of every forwarding rule, on a node
\* whose role changes, with a forwarder and a primary that may be missing.
SessionDeployments ==
  {[BaseDeployment EXCEPT
      !.type = t,
      !.roles = {"none", "primary", "backup"},
      !.lookups = {"found", "no_path"},
      !.create = BOOLEAN,
      !.forwarding = BOOLEAN,
      !.session_arrives = BOOLEAN,
      !.primaries = {NoNode, "n0"},
      !.forward_ok = BOOLEAN,
      !.outcomes = {Committing},
      !.endpoints = {Endpoint(FALSE, FALSE, FALSE, FALSE, f)
                     : f \in ForwardingRequired}]
   : t \in {CFT, BFT}}

InitLifecycle == \E d \in LifecycleDeployments : Constructed(d)
InitExecutor == \E d \in ExecutorDeployments : Constructed(d)
InitDispatch == \E d \in DispatchDeployments : Constructed(d)
InitAuth == \E d \in AuthDeployments : Constructed(d)
InitSignature == \E d \in SignatureDeployments : Constructed(d)
InitCommit == \E d \in CommitDeployments : Constructed(d)
InitLock == \E d \in LockDeployments : Constructed(d)
InitTick == \E d \in TickDeployments : Constructed(d)
InitVerifiers == \E d \in VerifierDeployments : Constructed(d)
InitSession == \E d \in SessionDeployments : Constructed(d)

Init == InitLifecycle

Spec == Init /\ [][Next]_vars
SpecExecutor == InitExecutor /\ [][Next]_vars
SpecDispatch == InitDispatch /\ [][Next]_vars
SpecAuth == InitAuth /\ [][Next]_vars
SpecSignature == InitSignature /\ [][Next]_vars
SpecCommit == InitCommit /\ [][Next]_vars
SpecLock == InitLock /\ [][NextLock]_vars
SpecTick == InitTick /\ [][NextTick]_vars
SpecVerifiers == InitVerifiers /\ [][NextVerifiers]_vars
SpecSession == InitSession /\ [][NextSession]_vars

(***************************************************************************)
(* Properties: the lifecycle gate                                          *)
(***************************************************************************)
\* C1: when process(ctx) runs while the frontend is not Open (is_open
\* answers false, is_open_ stays false), the result is the response 404
\* "Frontend is not open." and nothing else happens: no endpoint lookup, no
\* metric change, no tx_count change, no history registration, no dispatch,
\* no endpoint execution, no commit and no KV write.
C1_ProcessNotOpen ==
  [][(pc = "idle" /\ pc' # "idle" /\ ctx'.entry = "process"
        /\ ~fe'.is_open_) =>
       /\ pc' = "done"
       /\ ctx'.result = "response"
       /\ ctx'.status = 404
       /\ ctx'.body = "Frontend is not open."
       /\ obs'.lookups = 0
       /\ ~obs'.endpoint_found
       /\ reg'.metrics = reg.metrics
       /\ fe'.tx_count = fe.tx_count
       /\ ~obs'.history_added
       /\ tx'.req_id = NoReqId
       /\ obs'.dispatch = "none"
       /\ ~obs'.executed
       /\ ~obs'.commit_called
       /\ tx'.writes = {}]_vars

\* A request for an endpoint that exists is answered 404 by the gate while
\* the frontend waits for the service identity to be recorded as open.
C1_Witness ==
  /\ pc = "done"
  /\ ctx.entry = "process"
  /\ ctx.lookup = "found"
  /\ ~fe.is_open_
  /\ fe.service_identity # NoIdentity
  /\ ctx.status = 404
  /\ ctx.body = "Frontend is not open."

\* C2: a forwarded request handled by process_forwarded (original_caller
\* present, CFT consensus) while the frontend is not Open yields the
\* response 404 "Frontend is not open." with no endpoint execution and no
\* KV write.
C2_ForwardedNotOpen ==
  (/\ pc # "idle"
   /\ ctx.entry = "process_forwarded"
   /\ ctx.original_caller # NoCaller
   /\ fe.consensus.type = CFT
   /\ ~fe.is_open_) =>
    /\ pc = "done"
    /\ ctx.result = "response"
    /\ ctx.status = 404
    /\ ctx.body = "Frontend is not open."
    /\ ~obs.executed
    /\ ~obs.commit_called
    /\ tx.writes = {}

(***************************************************************************)
(* Properties: metrics                                                     *)
(***************************************************************************)
\* C3: when a request whose endpoint was found in process_command gets its
\* response, the endpoint's errors counter is incremented exactly once iff
\* the response status is 4xx and its failures counter exactly once iff the
\* status is 5xx, on every exit path (the 409 retries-exhausted exit
\* included); 2xx and 3xx responses increment neither.
C3_MetricsFollowStatus ==
  [][(pc # "done" /\ pc' = "done" /\ obs'.endpoint_found
        /\ ctx'.result = "response") =>
       LET cat == ctx'.status \div 100 IN
       /\ reg'.metrics.errors =
            reg.metrics.errors + (IF cat = 4 THEN 1 ELSE 0)
       /\ reg'.metrics.failures =
            reg.metrics.failures + (IF cat = 5 THEN 1 ELSE 0)]_vars

C5_RetryLoopBounded ==
  [][pc = "exec" =>
       /\ loc.attempts <= 30
       /\ loc.attempts < 30 =>
            /\ obs'.runs <= 1
            /\ obs'.commits <= 1
            /\ pc' = "exec" =>
                 /\ loc'.attempts = loc.attempts + 1
                 /\ obs'.outcome.kind \in
                      {"CONFLICT", "CompactedVersionConflict"}
       /\ loc.attempts = 30 =>
            /\ pc' = "done"
            /\ ctx'.result = "response"
            /\ ctx'.status = 409
            /\ ctx'.body =
                 "Transaction continued to conflict after 30 attempts."
            /\ obs' = obs
            /\ tx' = tx]_vars

C5_Witness ==
  /\ pc = "done"
  /\ ctx.result = "response"
  /\ ctx.status = 409
  /\ ctx.body = "Transaction continued to conflict after 30 attempts."
  /\ obs.outcome.kind = "CompactedVersionConflict"

\* C6: an attempt is followed by another one iff it ended in a CONFLICT
\* commit or a CompactedVersionConflict exception; every other outcome ends
\* the request on that attempt: no_apply and commit OK with the endpoint's
\* response, NO_REPLICATE with 500 "Transaction failed to replicate.", an
\* RpcException with its status and message, a JsonParseError with 400, any
\* other exception with 500 and its message.
C6_OnlyConflictsRetry ==
  [][(pc = "exec" /\ loc.attempts < 30) =>
       LET o == obs'.outcome
           responds(status) ==
             /\ pc' = "done"
             /\ ctx'.result = "response"
             /\ ctx'.status = status
       IN  /\ pc' = "exec" <=>
                o.kind \in {"CONFLICT", "CompactedVersionConflict"}
           /\ o.kind \in {"no_apply", "OK"} => responds(o.status)
           /\ o.kind = "NO_REPLICATE" =>
                /\ responds(500)
                /\ ctx'.body = "Transaction failed to replicate."
           /\ o.kind = "RpcException" =>
                responds(o.status) /\ ctx'.body = "e.what()"
           /\ o.kind = "JsonParseError" => responds(400)
           /\ o.kind = "std::exception" =>
                responds(500) /\ ctx'.body = "e.what()"
           /\ o.kind = "no_apply" => obs'.commits = 0
           /\ obs'.runs <= 1
           /\ obs'.commits <= 1]_vars

\* A second attempt ended in a conflict and the loop goes on.
C6_Witness ==
  /\ pc = "exec"
  /\ loc.attempts = 2
  /\ obs.outcome.kind = "CONFLICT"
  /\ obs.executed
  /\ obs.commit_called

(***************************************************************************)
(* Properties: outcomes, authentication and dispatch                       *)
(***************************************************************************)
\* C7: a request accepted past the lifecycle gate (process and process_bft
\* with the frontend open, process_forwarded under CFT, which has no gate)
\* has no result while it executes and ends with exactly one of: a
\* serialised response, a pending result, or the abort of the process; it
\* aborts iff an attempt raised a KvSerialiserException.
C7_OneOutcome ==
  LET accepted ==
        \/ fe.is_open_
        \/ (ctx.entry = "process_forwarded" /\ fe.consensus.type = CFT)
  IN  (pc # "idle" /\ accepted) =>
        /\ pc = "exec" => ctx.result = "none"
        /\ pc = "done" => ctx.result \in {"response", "pending"}
        /\ pc = "aborted" => ctx.result = "abort"
        /\ ctx.result = "abort" <=>
             obs.outcome.kind = "KvSerialiserException"
        /\ ctx.result = "pending" =>
             (obs.forwarded \/ obs.history_added) /\ ~obs.executed

C7_Witness ==
  /\ pc = "aborted"
  /\ ctx.result = "abort"
  /\ obs.outcome.kind = "KvSerialiserException"
  /\ obs.commit_called

\* C8 as stated: when the endpoint requires client identity and the caller
\* id in effect after the signed-request override is INVALID_ID, the request
\* is rejected with 403 before dispatch and the endpoint is never executed,
\* whatever the registry's certificate store holds.
C8_InvalidCallerNeverExecutes ==
  (/\ obs.endpoint_found
   /\ reg.endpoint.require_client_identity
   /\ obs.caller_id = INVALID_ID) =>
    /\ pc = "done"
    /\ ctx.result = "response"
    /\ ctx.status = 403
    /\ obs.dispatch = "none"
    /\ ~obs.executed

\* C8, amended: when the endpoint requires client identity, the registry
\* has certs and the caller id in effect after the signed-request override is
\* INVALID_ID, the request is rejected with 403 before dispatch and the
\* endpoint is never executed.
C8_InvalidCallerRejectedWithCerts ==
  (/\ obs.endpoint_found
   /\ reg.endpoint.require_client_identity
   /\ reg.has_certs
   /\ obs.caller_id = INVALID_ID) =>
    /\ pc = "done"
    /\ ctx.result = "response"
    /\ ctx.status = 403
    /\ ctx.body = "Could not find matching actor certificate"
    /\ obs.dispatch = "none"
    /\ ~obs.executed
    /\ tx.writes = {}

\* A request signed with an unknown key on a session without identity is
\* rejected by the identity gate.
C8_Witness ==
  /\ pc = "done"
  /\ obs.endpoint_found
  /\ reg.endpoint.require_client_identity
  /\ reg.has_certs
  /\ ctx.signed = "unknown_key"
  /\ obs.caller_id = INVALID_ID
  /\ ctx.status = 403

\* C9 as stated: the dispatch decision equals the decision table: a primary
\* (no consensus, consensus primary or create-request) executes locally; on a
\* non-primary CFT/Never -> local, CFT/Sometimes -> forward-or-redirect iff
\* session.is_forwarding, CFT/Always -> forward-or-redirect, BFT/Never ->
\* local, BFT/Sometimes -> forward-or-redirect iff execute_on_node is false
\* and the endpoint is not execute_locally, BFT/Always -> forward-or-redirect
\* irrespective of execute_on_node; forwarding sets session.is_forwarding.
C9_DispatchTable ==
  obs.dispatch # "none" =>
    LET is_primary ==
          \/ ~fe.consensus.present
          \/ fe.consensus.is_primary
          \/ ctx.is_create_request
        type == fe.consensus.type
        required == reg.endpoint.forwarding_required
        forward ==
          IF is_primary THEN FALSE
          ELSE CASE type = CFT /\ required = Never -> FALSE
                 [] type = CFT /\ required = Sometimes -> obs.was_forwarding
                 [] type = CFT /\ required = Always -> TRUE
                 [] type = BFT /\ required = Never -> FALSE
                 [] type = BFT /\ required = Sometimes ->
                      ~ctx.execute_on_node /\ ~reg.endpoint.execute_locally
                 [] type = BFT /\ required = Always -> TRUE
    IN  /\ obs.dispatch = "forward_or_redirect" <=> forward
        /\ obs.dispatch = "forward_or_redirect" => ctx.is_forwarding

\* C9, amended: as the table above, except that under BFT/Always a
\* non-primary forwards or redirects iff execute_on_node is false.
C9_DispatchTableExecuteOnNode ==
  obs.dispatch # "none" =>
    LET is_primary ==
          \/ ~fe.consensus.present
          \/ fe.consensus.is_primary
          \/ ctx.is_create_request
        type == fe.consensus.type
        required == reg.endpoint.forwarding_required
        forward ==
          IF is_primary THEN FALSE
          ELSE CASE type = CFT /\ required = Never -> FALSE
                 [] type = CFT /\ required = Sometimes -> obs.was_forwarding
                 [] type = CFT /\ required = Always -> TRUE
                 [] type = BFT /\ required = Never -> FALSE
                 [] type = BFT /\ required = Sometimes ->
                      ~ctx.execute_on_node /\ ~reg.endpoint.execute_locally
                 [] type = BFT /\ required = Always -> ~ctx.execute_on_node
    IN  /\ obs.dispatch = "forward_or_redirect" <=> forward
        /\ obs.dispatch = "forward_or_redirect" => ctx.is_forwarding
        /\ obs.dispatch = "local" =>
             ctx.is_forwarding = obs.was_forwarding

\* A BFT backup executes a request marked execute_on_node on an endpoint
\* whose forwarding_required is Always.
C9_Witness ==
  /\ obs.dispatch = "local"
  /\ obs.executed
  /\ fe.consensus.type = BFT
  /\ fe.consensus.present
  /\ ~fe.consensus.is_primary
  /\ ~ctx.is_create_request
  /\ ctx.execute_on_node
  /\ reg.endpoint.forwarding_required = Always

\* C10: at most one of local endpoint execution, forward to the primary and
\* redirect happens to a request, and a request that is forwarded or
\* redirected writes nothing to the KV: no pre_exec write, no client
\* signature record, no endpoint execution and no commit.
C10_ForwardOrRedirectWritesNothing ==
  /\ ~(obs.forwarded /\ obs.redirected)
  /\ ~(obs.executed /\ (obs.forwarded \/ obs.redirected))
  /\ (obs.forwarded \/ obs.redirected
        \/ obs.dispatch = "forward_or_redirect") =>
       /\ tx.writes = {}
       /\ ~obs.executed
       /\ ~obs.commit_called
       /\ obs.runs = 0
       /\ obs.commits = 0
       /\ pc = "done"

\* A signed request is forwarded to the primary.
C10_Witness ==
  /\ pc = "done"
  /\ obs.forwarded
  /\ ctx.result = "pending"
  /\ ctx.signed = "known_key"
  /\ tx.writes = {}

(***************************************************************************)
(* Properties: forward or redirect                                         *)
(***************************************************************************)
\* C11: forward-or-redirect has exactly these outcomes: with a forwarder
\* and a request that did not arrive forwarded, pending when forward_command
\* succeeds and 500 "RPC could not be forwarded to unknown primary." when no
\* primary is known; when the request arrived forwarded or there is no
\* forwarder, 307 with a Location header equal to the primary's
\* "<pubhost>:<rpcport>" from the node table.
C11_ForwardOrRedirectOutcomes ==
  obs.dispatch = "forward_or_redirect" =>
    LET can_forward == fe.cmd_forwarder /\ ctx.original_caller = NoCaller
        unknown_primary ==
          /\ ctx.result = "response"
          /\ ctx.status = 500
          /\ ctx.body = "RPC could not be forwarded to unknown primary."
    IN  /\ pc = "done"
        /\ can_forward =>
             /\ (ctx.result = "pending" /\ obs.forwarded) \/ unknown_primary
             /\ ctx.result = "pending" => obs.primary # NoNode
             /\ obs.primary = NoNode => unknown_primary
        /\ ~can_forward =>
             /\ ctx.result = "response"
             /\ ctx.status = 307
             /\ obs.redirected
             /\ ctx.location = HostPort(obs.primary)

(***************************************************************************)
(* Properties: the order of the gates                                      *)
(***************************************************************************)
\* C12: within one request the gates of process_command are evaluated in
\* the order endpoint lookup (404/405), identity requirement (403),
\* signature requirement (401 Signature), signature verification (401
\* Signature), JWT requirement (401 Bearer); the response is that of the
\* first gate that fails and no later gate is evaluated; dispatch, the
\* tx_count increment and endpoint execution happen only after every
\* applicable gate has been evaluated and passed.
C12_GatesInOrder ==
  [][(pc = "idle" /\ pc' # "idle" /\ obs'.gates # <<>>) =>
       LET g == obs'.gates
           evaluated == {g[i] : i \in 1..Len(g)}
           order == <<"lookup", "identity", "signature_requirement",
                      "signature_verification", "jwt">>
           rank(x) == CHOOSE i \in 1..Len(order) : order[i] = x
           e == reg.endpoint
           forwarded_cft ==
             /\ fe'.consensus.present
             /\ fe'.consensus.type = CFT
             /\ ctx'.original_caller # NoCaller
           applicable ==
             {x \in {order[i] : i \in 1..Len(order)} :
                \/ x = "lookup"
                \/ x = "identity"
                     /\ e.require_client_identity /\ reg.has_certs
                \/ x = "signature_requirement" /\ e.require_client_signature
                \/ x = "signature_verification"
                     /\ ctx'.signed # "none"
                     /\ ~ctx'.is_create_request
                     /\ ~forwarded_cft
                \/ x = "jwt" /\ e.require_jwt_authentication}
           failed == obs'.failed
           status ==
             CASE failed = "lookup" -> {404, 405}
               [] failed = "identity" -> {403}
               [] OTHER -> {401}
           challenge ==
             CASE failed \in {"signature_requirement",
                              "signature_verification"} -> "Signature"
               [] failed = "jwt" -> "Bearer"
               [] OTHER -> ""
           dispatched ==
             \/ obs'.dispatch # "none"
             \/ fe'.tx_count # fe.tx_count
             \/ pc' = "exec"
       IN  /\ \A i \in 1..(Len(g) - 1) : rank(g[i]) < rank(g[i + 1])
           /\ failed # "none" =>
                /\ g[Len(g)] = failed
                /\ evaluated =
                     {x \in applicable : rank(x) <= rank(failed)}
                /\ pc' = "done"
                /\ ctx'.result = "response"
                /\ ctx'.status \in status
                /\ ctx'.www_authenticate = challenge
                /\ ~dispatched
                /\ ~obs'.executed
                /\ tx'.writes = {}
           /\ failed = "none" => evaluated = applicable /\ dispatched
           /\ dispatched => failed = "none" /\ evaluated = applicable]_vars

\* A signed request passes the identity and signature gates and is rejected
\* by the JWT requirement.
C12_Witness ==
  /\ pc = "done"
  /\ obs.gates = <<"lookup", "identity", "signature_requirement",
                   "signature_verification", "jwt">>
  /\ obs.failed = "jwt"
  /\ ctx.status = 401
  /\ ctx.www_authenticate = "Bearer"

(***************************************************************************)
(* Properties: signed requests                                             *)
(***************************************************************************)
\* C13: a signed request reaches dispatch or endpoint execution only if
\* verify_client_signature answered true for it, unless it is a
\* create-request or a forwarded request under CFT consensus, the two cases
\* in which verification is not called; when verification answers false (as
\* it always does without a client-signatures table name) the response is
\* 401 with the Signature WWW-Authenticate header, no signature is recorded
\* and no endpoint is executed.
C13_SignedRequestsVerified ==
  (obs.endpoint_found /\ ctx.signed # "none") =>
    LET skipped ==
          \/ ctx.is_create_request
          \/ /\ fe.consensus.present
             /\ fe.consensus.type = CFT
             /\ ctx.original_caller # NoCaller
        recorded == {w \in tx.writes : w[1] = "client_signatures"}
    IN  /\ (obs.dispatch # "none" \/ obs.executed) =>
             IF skipped
             THEN obs.verified = "not_called"
             ELSE obs.verified = "true"
        /\ obs.verified = "true" => fe.client_signatures_name # ""
        /\ obs.verified = "false" =>
             /\ pc = "done"
             /\ ctx.result = "response"
             /\ ctx.status = 401
             /\ ctx.www_authenticate = "Signature"
             /\ ctx.body = "Failed to verify client signature"
             /\ obs.dispatch = "none"
             /\ ~obs.executed
             /\ recorded = {}

\* Verification fails because no client-signatures table name is configured.
C13_Witness ==
  /\ pc = "done"
  /\ ctx.signed = "known_key"
  /\ fe.client_signatures_name = ""
  /\ obs.verified = "false"
  /\ ctx.status = 401
  /\ ctx.www_authenticate = "Signature"

\* C14: when a request that carries a signed request has been executed on
\* the primary and ends, a client-signature record for its caller is
\* persisted in the KV: the request's transaction committed with the record
\* in it, the full SignedReq or only the signature when
\* request_storing_disabled is set.  (An error returned before the recording
\* step leaves the endpoint unexecuted.)
C14_SignatureRecorded ==
  [][(/\ pc = "exec"
      /\ pc' = "done"
      /\ ctx.signed # "none"
      /\ loc.is_primary
      /\ obs'.executed) =>
       /\ obs'.outcome.kind = "OK"
       /\ <<"client_signatures", loc.caller_id,
            IF fe.request_storing_disabled THEN "sig" ELSE "signed_req">>
            \in tx'.writes]_vars

\* C15: when the key id of a signed request resolves to a valid caller id,
\* that id, not the session's or the forwarded original caller's, is the
\* caller id of the identity gate, of signature verification, of the
\* client-signature record, of forwarding and of the EndpointContext; when it
\* resolves to INVALID_ID the session-level caller id is kept.
C15_SignerIsCaller ==
  (obs.endpoint_found /\ ctx.signed # "none") =>
    LET session_caller ==
          IF ctx.entry = "process" THEN ctx.cert_id ELSE ctx.original_caller
        expected ==
          IF ctx.signed = "known_key" THEN SignerId ELSE session_caller
    IN  /\ obs.caller_id = expected
        /\ pc = "exec" => loc.caller_id = expected
        /\ "identity" \in {obs.gates[i] : i \in 1..Len(obs.gates)} =>
             (expected = INVALID_ID => obs.failed = "identity")
        /\ (obs.failed = "identity" /\ ctx.original_caller = NoCaller) =>
             expected = INVALID_ID
        /\ (obs.verified # "not_called" /\ fe.client_signatures_name # "") =>
             fe.verifiers[expected] # "none"
        /\ \A w \in tx.writes :
             w[1] = "client_signatures" => w[2] = expected
        /\ obs.forwarded => obs.forwarded_as = expected
        /\ obs.dispatch = "local" => obs.args_caller = expected

\* A session without identity sends a request signed with a known key to an
\* endpoint that requires client identity; the signer's record is written.
C15_Witness ==
  /\ ctx.signed = "known_key"
  /\ ctx.entry = "process"
  /\ ctx.cert_id = INVALID_ID
  /\ reg.endpoint.require_client_identity
  /\ obs.executed
  /\ obs.args_caller = SignerId
  /\ <<"client_signatures", SignerId, "signed_req">> \in tx.writes

(***************************************************************************)
(* Properties: the committed version                                       *)
(***************************************************************************)
\* C16 as stated: a request whose transaction commits OK gets a response
\* whose seqno is the transaction's commit version, or its read version when
\* the commit version is zero, and whose view is the commit term.
C16_SeqnoIsCommitVersion ==
  [][(pc = "exec" /\ pc' = "done" /\ obs'.outcome.kind = "OK") =>
       LET v == obs'.outcome.version
           cv == IF v.commit_version = "0"
                 THEN v.read_version
                 ELSE v.commit_version
       IN  /\ ctx'.result = "response"
           /\ ctx'.seqno = cv
           /\ ctx'.view = v.commit_term]_vars

\* C16, amended: when the frontend has a consensus and the version (the
\* commit version, or the read version when the commit version is zero) is
\* not NoVersion, the response's seqno is that version and its view the
\* commit term; otherwise the response carries neither seqno nor view.
C16_SeqnoIsCommitVersionUnderConsensus ==
  [][(pc = "exec" /\ pc' = "done" /\ obs'.outcome.kind = "OK") =>
       LET v == obs'.outcome.version
           cv == IF v.commit_version = "0"
                 THEN v.read_version
                 ELSE v.commit_version
       IN  /\ ctx'.result = "response"
           /\ IF fe.consensus.present /\ cv # NoVersion
              THEN ctx'.seqno = cv /\ ctx'.view = v.commit_term
              ELSE ctx'.seqno = "unset" /\ ctx'.view = "unset"]_vars

\* A transaction without writes commits OK: the seqno is its read version.
C16_Witness ==
  /\ pc = "done"
  /\ obs.outcome.kind = "OK"
  /\ obs.outcome.version.commit_version = "0"
  /\ fe.consensus.present
  /\ ctx.seqno = "v7"
  /\ ctx.view = "t3"

(***************************************************************************)
(* Properties: the lifecycle                                               *)
(***************************************************************************)
\* C17: once the frontend is Open it stays Open: no call of open, with or
\* without an identity, closes it, and is_open answers true without reading
\* the service record, so that no request is turned away by the gate and the
\* handlers are not initialised again.
C17_OpenIsMonotone ==
  [][fe.is_open_ =>
       /\ fe'.is_open_
       /\ reg'.init_handlers_calls = reg.init_handlers_calls
       /\ (pc = "idle" /\ pc' # "idle") =>
            /\ obs'.service_record = Unread
            /\ ctx'.result # "logic_error"
            /\ ~(ctx'.status = 404 /\ ctx'.body = "Frontend is not open.")]_vars

\* An identity was passed to open(); the frontend is Open and process
\* accepts a request without reading the service record.
C17_Witness ==
  /\ fe.is_open_
  /\ fe.service_identity = "H1"
  /\ pc = "done"
  /\ ctx.entry = "process"
  /\ obs.service_record = Unread
  /\ obs.lookups > 0

\* C19: open(identity = H) records H and does not open the frontend; a
\* frontend that is not Open becomes Open only at a call of open() without
\* identity or at an is_open(tx) call, and at an is_open(tx) call it does so
\* iff the globally committed service record read there has status OPEN and
\* a certificate equal to the recorded H (no record, another status, another
\* certificate or no recorded identity leave it not Open).
C19_OpenByIdentity ==
  [][/\ (pc = "idle" /\ pc' = "idle"
           /\ fe'.service_identity # fe.service_identity) =>
          /\ fe'.is_open_ = fe.is_open_
          /\ reg'.init_handlers_calls = reg.init_handlers_calls
     /\ (~fe.is_open_ /\ fe'.is_open_) =>
          \/ /\ pc = "idle"
             /\ pc' = "idle"
             /\ fe'.service_identity = fe.service_identity
          \/ /\ pc' # "idle"
             /\ obs'.service_record # Unread
     /\ (~fe.is_open_ /\ pc = "idle" /\ pc' # "idle"
           /\ obs'.service_record # Unread) =>
          (fe'.is_open_ <=>
             /\ obs'.service_record.status = "OPEN"
             /\ fe.service_identity # NoIdentity
             /\ obs'.service_record.cert = fe.service_identity)]_vars

\* The frontend waited for identity H0 and opened on reading the record.
C19_Witness ==
  /\ fe.is_open_
  /\ fe.service_identity = "H0"
  /\ obs.service_record = [status |-> "OPEN", cert |-> "H0"]
  /\ reg.init_handlers_calls = 1
  /\ pc = "done"

\* C20: a request through process on an Open frontend whose method and verb
\* match no registered endpoint is answered 404 with Content-Type text/plain
\* and body "Unknown path: <method>" when no verb is registered for the
\* path, and otherwise 405 with an Allow header and a body listing the
\* allowed verbs; no endpoint is executed, no request is registered with
\* the history and no metric changes, for every consensus type and role.
C20_LookupMiss ==
  [][(pc = "idle" /\ pc' # "idle" /\ ctx'.entry = "process"
        /\ fe'.is_open_ /\ ctx'.lookup # "found") =>
       /\ pc' = "done"
       /\ ctx'.result = "response"
       /\ ctx'.lookup = "no_path" =>
            /\ ctx'.status = 404
            /\ ctx'.content_type = "text/plain"
            /\ ctx'.body = "Unknown path"
       /\ ctx'.lookup = "wrong_verb" =>
            /\ ctx'.status = 405
            /\ ctx'.allow = "allowed verbs"
            /\ ctx'.body = "Allowed methods"
       /\ ~obs'.executed
       /\ ~obs'.history_added
       /\ tx'.req_id = NoReqId
       /\ reg'.metrics = reg.metrics]_vars

\* C18: across every interleaving of concurrent open() and is_open() calls,
\* init_handlers is invoked at most once, only by the call that has just
\* set the frontend Open, and exactly once as soon as that call has
\* returned: a frontend seen Open outside the lock, and one that is_open
\* has reported Open, has had its handlers initialised exactly once.
C18_InitHandlersOnce ==
  /\ reg.init_handlers_calls <= 1
  /\ reg.init_handlers_calls = 1 => fe.is_open_
  /\ (fe.is_open_ /\ reg.init_handlers_calls = 0) =>
       /\ open_lock # NoThread
       /\ threads[open_lock].pc \in {"open_init", "is_open_init"}
  /\ \A t \in Threads :
       threads[t].result = "true" => reg.init_handlers_calls = 1

\* The handlers are initialised; one thread is told so inside is_open while
\* another waits for the lock in open() and a third in is_open.
C18_Witness ==
  /\ reg.init_handlers_calls = 1
  /\ open_lock = "t1"
  /\ threads["t1"].pc = "is_open_return"
  /\ threads["t2"].pc = "open_lock"
  /\ threads["t2"].identity = NoIdentity
  /\ threads["t3"].pc = "is_open_lock"

(***************************************************************************)
(* Properties: BFT distribution                                            *)
(***************************************************************************)
\* C21 (as stated): in process on an Open frontend under BFT, a primary
\* handling a request for an endpoint that is not execute_locally registers
\* the request with the history under {caller_id, client_session_id,
\* request_index}, does not execute the endpoint and returns pending with
\* tx.req_id equal to that id; if add_request returns false the response is
\* 500 "Could not process request." and the request is not deferred.
C21_PrimaryDistributes ==
  [][(/\ pc = "idle" /\ pc' # "idle"
      /\ ctx'.entry = "process"
      /\ fe'.is_open_
      /\ fe'.consensus.present
      /\ fe'.consensus.type = BFT
      /\ fe'.consensus.is_primary
      /\ ctx'.lookup = "found"
      /\ ~reg'.endpoint.execute_locally) =>
       /\ pc' = "done"
       /\ ~obs'.executed
       /\ obs'.dispatch = "none"
       /\ \/ /\ ctx'.result = "pending"
             /\ obs'.history_added
             /\ tx'.req_id =
                  <<ctx'.cert_id, "client_session_id", "request_index">>
          \/ /\ ctx'.result = "response"
             /\ ctx'.status = 500
             /\ ctx'.body = "Could not process request."
             /\ ~obs'.history_added
             /\ tx'.req_id = NoReqId]_vars

\* C21 (amended): the same holds when the store has a history; with no
\* history nothing is registered and the response is 500 "Consensus is not
\* yet ready.".
C21_PrimaryDistributesWithHistory ==
  [][(/\ pc = "idle" /\ pc' # "idle"
      /\ ctx'.entry = "process"
      /\ fe'.is_open_
      /\ fe'.consensus.present
      /\ fe'.consensus.type = BFT
      /\ fe'.consensus.is_primary
      /\ ctx'.lookup = "found"
      /\ ~reg'.endpoint.execute_locally) =>
       /\ pc' = "done"
       /\ ~obs'.executed
       /\ obs'.dispatch = "none"
       /\ IF fe'.history # NullHistory
          THEN \/ /\ ctx'.result = "pending"
                  /\ obs'.history_added
                  /\ tx'.req_id =
                       <<ctx'.cert_id, "client_session_id", "request_index">>
               \/ /\ ctx'.result = "response"
                  /\ ctx'.status = 500
                  /\ ctx'.body = "Could not process request."
                  /\ ~obs'.history_added
                  /\ tx'.req_id = NoReqId
          ELSE /\ ctx'.result = "response"
               /\ ctx'.status = 500
               /\ ctx'.body = "Consensus is not yet ready."
               /\ ~obs'.history_added
               /\ tx'.req_id = NoReqId]_vars

\* A BFT primary has registered a request for a non-local endpoint and
\* returned pending.
C21_Witness ==
  /\ pc = "done"
  /\ ctx.entry = "process"
  /\ fe.is_open_
  /\ fe.consensus.present
  /\ fe.consensus.type = BFT
  /\ fe.consensus.is_primary
  /\ ctx.lookup = "found"
  /\ ~reg.endpoint.execute_locally
  /\ ctx.result = "pending"
  /\ obs.history_added
  /\ tx.req_id = <<ctx.cert_id, "client_session_id", "request_index">>

C23_ForwardedNeverPending ==
  (/\ pc # "idle"
   /\ ctx.entry = "process_forwarded"
   /\ ctx.original_caller # NoCaller
   /\ fe.consensus.type = CFT) =>
    /\ ctx.result # "pending"
    /\ ctx.result # "logic_error"
    /\ pc = "done" => ctx.result = "response"
    /\ ~obs.forwarded
    /\ obs.dispatch = "forward_or_redirect" =>
         /\ pc = "done"
         /\ ctx.result = "response"
         /\ ctx.status = 307
         /\ obs.redirected

\* A forwarded request reached a CFT backup that has a forwarder, took the
\* forward-or-redirect path and was redirected.
C23_Witness ==
  /\ pc = "done"
  /\ ctx.entry = "process_forwarded"
  /\ ctx.original_caller # NoCaller
  /\ fe.consensus.type = CFT
  /\ ~fe.consensus.is_primary
  /\ fe.cmd_forwarder
  /\ obs.dispatch = "forward_or_redirect"
  /\ obs.redirected
  /\ ctx.status = 307
  /\ ctx.result = "response"

(***************************************************************************)
(* Properties: retries                                                     *)
(***************************************************************************)
\* C24: when tx.commit() returns CONFLICT the executor resets the
\* transaction before the next attempt and re-uses the same transaction
\* object: the loop goes on with the transaction of the request, tx.reset()
\* has been called and the transaction carries none of the attempt's
\* writes.
C24_ConflictResets ==
  [][(/\ pc = "exec"
      /\ loc'.attempts = loc.attempts + 1
      /\ obs'.outcome.kind = "CONFLICT") =>
       /\ pc' = "exec"
       /\ tx'.req_id = tx.req_id
       /\ obs'.reset_called
       /\ tx'.writes = {}]_vars

(***************************************************************************)
(* Properties: the verifier cache                                          *)
(***************************************************************************)
\* C25: across every interleaving of concurrent verify_client_signature
\* calls, at most one verifier is constructed and stored per caller id, a
\* stored verifier is never replaced or evicted, and every verification
\* for a caller id uses the verifier built from the certificate presented
\* by the first call for that id, whatever certificate later calls present.
C25_OneVerifierPerCaller ==
  /\ [](\A c \in CallerIds :
          /\ made[c].count <= 1
          /\ made[c].count = 1 <=> fe.verifiers[c] # NoVerifier
          /\ fe.verifiers[c] # NoVerifier =>
               fe.verifiers[c] = make_verifier(made[c].first))
  /\ [](\A t \in Threads :
          verifying[t].pc = "verify" =>
            verifying[t].verifier =
              make_verifier(made[verifying[t].caller_id].first))
  /\ [][\A c \in CallerIds :
          fe.verifiers[c] # NoVerifier =>
            fe'.verifiers[c] = fe.verifiers[c]]_vars

\* One caller id was first verified with cert_a; a later call presenting
\* cert_b for the same id verifies with the stored verifier while a third
\* thread waits for the lock.
C25_Witness ==
  /\ fe.verifiers["user0"] = "cert_a"
  /\ made["user0"].count = 1
  /\ verifying["t1"].pc = "verify"
  /\ verifying["t1"].caller_id = "user0"
  /\ verifying["t1"].caller = "cert_b"
  /\ verifying["t1"].verifier = "cert_a"
  /\ verifying["t2"].pc = "lock"
  /\ verifying["t2"].caller_id = "user0"
  /\ verifiers_lock = "t3"

(***************************************************************************)
(* Properties: the session's is_forwarding                                 *)
(***************************************************************************)
\* C26: the frontend never clears session.is_forwarding; it is set whenever
\* a request takes the forward-or-redirect path, also when the forward
\* fails with 500 or ends in a 307; so it is set exactly when the session
\* arrived with it set or one of its requests has taken that path, and on
\* a CFT backup (the role the dispatch computes: a consensus that is not
\* primary and a request that is not a create-request) a request for a
\* forwarding = Sometimes endpoint that reaches the dispatch is
\* forward-or-redirected iff the session arrived with is_forwarding set or
\* an earlier request of the session took the forward-or-redirect path, and
\* is executed locally otherwise.
C26_SessionKeepsForwarding ==
  /\ [](session.is_forwarding <=> (session.arrived \/ session.took_path))
  /\ [][/\ session.is_forwarding => session'.is_forwarding
        /\ (pc = "idle" /\ pc' # "idle") =>
             /\ obs'.dispatch = "forward_or_redirect" =>
                  /\ session'.is_forwarding
                  /\ ctx'.is_forwarding
             /\ (/\ fe'.consensus.present
                 /\ fe'.consensus.type = CFT
                 /\ ~fe'.consensus.is_primary
                 /\ ~ctx'.is_create_request
                 /\ reg'.endpoint.forwarding_required = Sometimes
                 /\ obs'.dispatch # "none") =>
                  IF session.arrived \/ session.took_path
                  THEN obs'.dispatch = "forward_or_redirect"
                  ELSE obs'.dispatch = "local"]_vars

\* The session arrived without is_forwarding; an earlier request took the
\* forward-or-redirect path, and now a request for a Sometimes endpoint on
\* a CFT backup has been redirected.
C26_Witness ==
  /\ ~session.arrived
  /\ session.took_path
  /\ session.is_forwarding
  /\ reg.metrics.calls >= 2
  /\ pc = "done"
  /\ fe.consensus.present
  /\ fe.consensus.type = CFT
  /\ ~fe.consensus.is_primary
  /\ reg.endpoint.forwarding_required = Sometimes
  /\ obs.dispatch = "forward_or_redirect"
  /\ ctx.status = 307
====
